---- MODULE Spec2Model ----
(***************************************************************************)
(* RendezvousChannel of src/so.py: a synchronous (unbuffered) channel      *)
(* built from one Lock and three Conditions (_can_send, _can_recv, _ack).  *)
(* Every statement executed under the lock is one step; a Condition.wait() *)
(* releases the lock, parks the thread until a notify() picks it, and the  *)
(* thread then re-acquires the lock before re-testing its loop predicate.  *)
(* Sender threads call send() once per element of their plan, receiver     *)
(* threads call recv() quota times, each call after the previous returned. *)
(***************************************************************************)
EXTENDS Integers, Sequences, FiniteSets

\* ---------------------------------------------------------------- bounds
\* send() calls made on the channel, over all sender threads
MaxSends == 2
\* recv() calls made on the channel, over all receiver threads
MaxRecvs == 2
\* the values sent are 1..MaxVal
MaxVal == 2
\* the longest run of sequential sends in the one-sender/one-receiver scenario
FifoLen == 4
\* the lottery's number of players (main runs it with N = 10)
NumJugadores == 2
\* the lottery's numbers are 1..MaxNumero (the program draws from 1..20)
MaxNumero == 2

\* a thread that makes no call does nothing, so one thread per call is the
\* most that can matter
Senders == 1..MaxSends
Receivers == 1..MaxRecvs
Values == 1..MaxVal

\* Python's None in the _msg slot (never a sent value: Values starts at 1)
None == 0
\* ghost identity of "no send call"
NoId == <<0, 0>>
\* the lock is free
NoThread == <<"none", 0>>

SThread(s) == <<"S", s>>
RThread(r) == <<"R", r>>

VARIABLES
  lock,               \* _lock: the thread holding it, or NoThread
  has_msg,            \* _has_msg
  msg,                \* _msg
  waiting_receivers,  \* _waiting_receivers
  spc,                \* position of each sender thread
  rpc,                \* position of each receiver thread
  plan,               \* the values each sender thread sends, in order
  quota,              \* how many times each receiver thread calls recv()
  sdone,              \* number of send() calls of each sender that returned
  val,                \* recv's local variable val
  got,                \* the values returned to each receiver thread, in order
  msgId,              \* ghost: the send call whose value is in _msg
  valId,              \* ghost: the send call whose value is in val
  gotId,              \* ghost: the send calls matched by each returned recv
  stagedIds,          \* ghost: send calls that have set _has_msg
  picked,             \* ghost: send calls whose value a recv has read
  \* --- the lottery simulation (main and the four roles)
  ch,                 \* the channels main creates: their three fields
  tpc,                \* the channel call each lottery thread is at
  tph,                \* how far the thread is inside that call
  elegido,            \* jugador: the number each player chose
  agraciado,          \* sorteo: the number drawn
  recibidos,          \* administracion: the table of received numbers
  a_agraciado,        \* administracion: the drawn number it received
  a_resultados,       \* administracion: the results it received
  orden,              \* administracion: the shuffled player ids
  idx,                \* administracion: position of the for loop in orden
  e_resultados,       \* escrutinio: the results it computed
  res,                \* jugador: the result each player received
  duplicado           \* ghost: the duplicate branch (line 125) was taken

\* the state of the lottery simulation
lottery == <<ch, tpc, tph, elegido, agraciado, recibidos, a_agraciado,
             a_resultados, orden, idx, e_resultados, res, duplicado>>

vars == <<lock, has_msg, msg, waiting_receivers, spc, rpc, plan, quota,
          sdone, val, got, msgId, valId, gotId, stagedIds, picked, lottery>>

chan == <<has_msg, msg, waiting_receivers>>
inputs == <<plan, quota>>
ghost == <<msgId, valId, gotId, stagedIds, picked>>

\* sequences over S of length at most n
SeqUpTo(S, n) == UNION {[1..k -> S] : k \in 0..n}

\* sum of f over 1..n
RECURSIVE SumTo(_, _)
SumTo(f, n) == IF n = 0 THEN 0 ELSE f[n] + SumTo(f, n - 1)

\* calls the threads will make, and calls that have returned
SendCalls == SumTo([s \in Senders |-> Len(plan[s])], MaxSends)
RecvCalls == SumTo(quota, MaxRecvs)
SendsDone == SumTo(sdone, MaxSends)
RecvsDone == SumTo([r \in Receivers |-> Len(got[r])], MaxRecvs)

\* the call a sender thread is currently in (1-based)
CurCall(s) == sdone[s] + 1
CurId(s) == <<s, CurCall(s)>>
CurVal(s) == plan[s][CurCall(s)]

\* where a thread goes after a call returns: its next call, or the end
SenderNext(s, n) == IF n < Len(plan[s]) THEN "enter" ELSE "done"
ReceiverNext(r, n) == IF n < quota[r] THEN "enter" ELSE "done"

\* --------------------------------------------- the lottery: what main builds
Jugadores == 1..NumJugadores
Numeros == 1..MaxNumero

\* the channels of main (lines 150-154)
ChEnvios == <<"envios", 0>>
ChSorteoAdmin == <<"sorteo_admin", 0>>
ChAdminEscru == <<"admin_escru", 0>>
ChEscruAdmin == <<"escru_admin", 0>>
ChNotif(j) == <<"notif", j>>
NoChannel == <<"none", 0>>
Channels ==
  {ChEnvios, ChSorteoAdmin, ChAdminEscru, ChEscruAdmin}
    \cup {ChNotif(j) : j \in Jugadores}

\* the threads of main (lines 157-170)
Administracion == <<"Administracion", 0>>
Sorteo == <<"Sorteo", 0>>
Escrutinio == <<"Escrutinio", 0>>
Jugador(j) == <<"Jugador", j>>
Threads ==
  {Administracion, Sorteo, Escrutinio} \cup {Jugador(j) : j \in Jugadores}

\* the first channel call of each thread's function
FirstCall(t) ==
  IF t = Administracion THEN "recv_envio"
  ELSE IF t = Sorteo THEN "send_sorteo"
  ELSE IF t = Escrutinio THEN "recv_admin"
  ELSE "send_envio"

\* ResultadoJugador (lines 71-75)
ResultadoJugador(e, a, ac) == [elegido |-> e, agraciado |-> a, acierto |-> ac]
SinResultado == ResultadoJugador(0, 0, FALSE)

\* main up to the threads' start, the players having chosen the numbers el
\* and the draw being ag
LotteryStart(el, ag) ==
  /\ ch = [c \in Channels |->
             [has_msg |-> FALSE, msg |-> None, waiting_receivers |-> 0]]
  /\ tpc = [t \in Threads |-> FirstCall(t)]
  /\ tph = [t \in Threads |-> "call"]
  /\ elegido = el
  /\ agraciado = ag
  /\ recibidos = <<>>
  /\ a_agraciado = 0
  /\ a_resultados = <<>>
  /\ orden = <<>>
  /\ idx = 0
  /\ e_resultados = <<>>
  /\ res = [j \in Jugadores |-> SinResultado]
  /\ duplicado = FALSE

\* the lottery is not run while one channel is studied on its own: main has
\* created no channel and started no thread
LotteryNotRun ==
  /\ ch = <<>>
  /\ tpc = <<>>
  /\ tph = <<>>
  /\ elegido = <<>>
  /\ agraciado = 0
  /\ recibidos = <<>>
  /\ a_agraciado = 0
  /\ a_resultados = <<>>
  /\ orden = <<>>
  /\ idx = 0
  /\ e_resultados = <<>>
  /\ res = <<>>
  /\ duplicado = FALSE

\* ------------------------------------------------------------------ Init
\* RendezvousChannel.__init__ plus the threads about to make their calls
ChannelInit ==
  /\ lock = NoThread
  /\ has_msg = FALSE
  /\ msg = None
  /\ waiting_receivers = 0

ThreadsInit ==
  /\ spc = [s \in Senders |-> SenderNext(s, 0)]
  /\ rpc = [r \in Receivers |-> ReceiverNext(r, 0)]
  /\ sdone = [s \in Senders |-> 0]
  /\ val = [r \in Receivers |-> None]
  /\ got = [r \in Receivers |-> <<>>]
  /\ msgId = NoId
  /\ valId = [r \in Receivers |-> NoId]
  /\ gotId = [r \in Receivers |-> <<>>]
  /\ stagedIds = {}
  /\ picked = {}

\* the callers: every way of sharing at most MaxSends send() calls among the
\* sender threads and at most MaxRecvs recv() calls among the receiver
\* threads. Thread numbers are only names, so the threads are numbered by
\* decreasing number of calls.
Callers ==
  /\ plan \in [Senders -> SeqUpTo(Values, MaxSends)]
  /\ quota \in [Receivers -> 0..MaxRecvs]
  /\ SendCalls <= MaxSends
  /\ RecvCalls <= MaxRecvs
  /\ \A s \in Senders : s + 1 \in Senders => Len(plan[s]) >= Len(plan[s + 1])
  /\ \A r \in Receivers : r + 1 \in Receivers => quota[r] >= quota[r + 1]

Init ==
  /\ Callers
  /\ ChannelInit
  /\ ThreadsInit
  /\ LotteryNotRun

\* the callers of Callers, all sending the same value: the channel never
\* looks at a value, so which values are sent does not change which thread
\* waits or runs
LiveCallers ==
  /\ Callers
  /\ \A s \in Senders : \A i \in 1..Len(plan[s]) : plan[s][i] = 1

InitLive ==
  /\ LiveCallers
  /\ ChannelInit
  /\ ThreadsInit
  /\ LotteryNotRun

\* one thread sends 1..k in order, one thread calls recv() k times
FifoCallers ==
  \E k \in 1..FifoLen :
    /\ plan = [s \in Senders |-> IF s = 1 THEN [i \in 1..k |-> i] ELSE <<>>]
    /\ quota = [r \in Receivers |-> IF r = 1 THEN k ELSE 0]

InitFifo ==
  /\ FifoCallers
  /\ ChannelInit
  /\ ThreadsInit
  /\ LotteryNotRun

\* ------------------------------------------------------- Condition.notify
\* (mutation) the sender-may-proceed signal is not given
NotifyCanSend_Lost == spc' = spc

\* (mutation) the message-available signal is not given
NotifyCanRecv_Lost == rpc' = rpc

\* notify() on _can_send: one arbitrary sender parked in _can_send.wait()
\* becomes runnable (it still has to re-acquire the lock); no-op if none.
CanSendWaiters == {s \in Senders : spc[s] = "wait_send"}
NotifyCanSend ==
  IF CanSendWaiters = {}
  THEN spc' = spc
  ELSE \E s \in CanSendWaiters : spc' = [spc EXCEPT ![s] = "woken_send"]

\* notify() on _can_recv
CanRecvWaiters == {r \in Receivers : rpc[r] = "wait_recv"}
NotifyCanRecv ==
  IF CanRecvWaiters = {}
  THEN rpc' = rpc
  ELSE \E r \in CanRecvWaiters : rpc' = [rpc EXCEPT ![r] = "woken_recv"]

\* (mutation) the acknowledgment is not signalled
NotifyAck_Lost == spc' = spc

\* notify() on _ack
AckWaiters == {s \in Senders : spc[s] = "wait_ack"}
NotifyAck ==
  IF AckWaiters = {}
  THEN spc' = spc
  ELSE \E s \in AckWaiters : spc' = [spc EXCEPT ![s] = "woken_ack"]

\* ------------------------------------------------------------------ send
\* line 29: with self._lock
SendEnter(s) ==
  /\ spc[s] = "enter"
  /\ lock = NoThread
  /\ lock' = SThread(s)
  /\ spc' = [spc EXCEPT ![s] = "guard"]
  /\ UNCHANGED <<lottery, chan, rpc, inputs, sdone, val, got, ghost>>

\* (mutation) the loop at line 32 forgets to test _has_msg
SendMustWait_NoSlotTest == waiting_receivers = 0

\* (mutation) the loop at line 32 forgets to test for a waiting receiver
SendMustWait_NoReceiverTest == has_msg

\* the predicate of the loop at line 32
SendMustWait == waiting_receivers = 0 \/ has_msg

\* lines 32-33: while ...: self._can_send.wait()
SendGuard(s) ==
  /\ spc[s] = "guard"
  /\ lock = SThread(s)
  /\ IF SendMustWait
     THEN /\ spc' = [spc EXCEPT ![s] = "wait_send"]
          /\ lock' = NoThread
     ELSE /\ spc' = [spc EXCEPT ![s] = "set_msg"]
          /\ lock' = lock
  /\ UNCHANGED <<lottery, chan, rpc, inputs, sdone, val, got, ghost>>

\* line 33: _can_send.wait() returns once notified and the lock is back
SendResume(s) ==
  /\ spc[s] = "woken_send"
  /\ lock = NoThread
  /\ lock' = SThread(s)
  /\ spc' = [spc EXCEPT ![s] = "guard"]
  /\ UNCHANGED <<lottery, chan, rpc, inputs, sdone, val, got, ghost>>

\* line 36: self._msg = value
SendSetMsg(s) ==
  /\ spc[s] = "set_msg"
  /\ lock = SThread(s)
  /\ msg' = CurVal(s)
  /\ msgId' = CurId(s)
  /\ spc' = [spc EXCEPT ![s] = "set_flag"]
  /\ UNCHANGED <<lottery, lock, has_msg, waiting_receivers, rpc, inputs, sdone, val,
                 got, valId, gotId, stagedIds, picked>>

\* line 37: self._has_msg = True
SendSetFlag(s) ==
  /\ spc[s] = "set_flag"
  /\ lock = SThread(s)
  /\ has_msg' = TRUE
  /\ stagedIds' = stagedIds \cup {CurId(s)}
  /\ spc' = [spc EXCEPT ![s] = "notify_recv"]
  /\ UNCHANGED <<lottery, lock, msg, waiting_receivers, rpc, inputs, sdone, val, got,
                 msgId, valId, gotId, picked>>

\* line 38: self._can_recv.notify()
SendNotifyRecv(s) ==
  /\ spc[s] = "notify_recv"
  /\ lock = SThread(s)
  /\ NotifyCanRecv
  /\ spc' = [spc EXCEPT ![s] = "ack"]
  /\ UNCHANGED <<lottery, lock, chan, inputs, sdone, val, got, ghost>>

\* (mutation) send() does not wait for the acknowledgment
SendMustWaitAck_Never == FALSE

\* the predicate of the loop at line 41
SendMustWaitAck == has_msg

\* lines 41-42: while self._has_msg: self._ack.wait(); falling out of the
\* loop leaves the with block: the lock is released and send() returns
SendAckGuard(s) ==
  /\ spc[s] = "ack"
  /\ lock = SThread(s)
  /\ lock' = NoThread
  /\ IF SendMustWaitAck
     THEN /\ spc' = [spc EXCEPT ![s] = "wait_ack"]
          /\ sdone' = sdone
     ELSE /\ spc' = [spc EXCEPT ![s] = SenderNext(s, sdone[s] + 1)]
          /\ sdone' = [sdone EXCEPT ![s] = @ + 1]
  /\ UNCHANGED <<lottery, chan, rpc, inputs, val, got, ghost>>

\* (mutation) "if" for "while" at line 41: after _ack.wait() the flag is not
\* tested again and send() returns
SendAckResume_NoRecheck(s) ==
  /\ spc[s] = "woken_ack"
  /\ lock = NoThread
  /\ lock' = NoThread
  /\ spc' = [spc EXCEPT ![s] = SenderNext(s, sdone[s] + 1)]
  /\ sdone' = [sdone EXCEPT ![s] = @ + 1]
  /\ UNCHANGED <<lottery, chan, rpc, inputs, val, got, ghost>>

\* line 42: _ack.wait() returns once notified and the lock is back
SendAckResume(s) ==
  /\ spc[s] = "woken_ack"
  /\ lock = NoThread
  /\ lock' = SThread(s)
  /\ spc' = [spc EXCEPT ![s] = "ack"]
  /\ UNCHANGED <<lottery, chan, rpc, inputs, sdone, val, got, ghost>>

\* ------------------------------------------------------------------ recv
\* line 45: with self._lock
RecvEnter(r) ==
  /\ rpc[r] = "enter"
  /\ lock = NoThread
  /\ lock' = RThread(r)
  /\ rpc' = [rpc EXCEPT ![r] = "register"]
  /\ UNCHANGED <<lottery, chan, spc, inputs, sdone, val, got, ghost>>

\* line 47: self._waiting_receivers += 1
RecvRegister(r) ==
  /\ rpc[r] = "register"
  /\ lock = RThread(r)
  /\ waiting_receivers' = waiting_receivers + 1
  /\ rpc' = [rpc EXCEPT ![r] = "notify_send"]
  /\ UNCHANGED <<lottery, lock, has_msg, msg, spc, inputs, sdone, val, got, ghost>>

\* line 48: self._can_send.notify()
RecvNotifySend(r) ==
  /\ rpc[r] = "notify_send"
  /\ lock = RThread(r)
  /\ NotifyCanSend
  /\ rpc' = [rpc EXCEPT ![r] = "guard"]
  /\ UNCHANGED <<lottery, lock, chan, inputs, sdone, val, got, ghost>>

\* (mutation) recv() does not wait for a message
RecvMustWait_Never == FALSE

\* the predicate of the loop at line 51
RecvMustWait == ~has_msg

\* lines 51-52: while not self._has_msg: self._can_recv.wait()
RecvGuard(r) ==
  /\ rpc[r] = "guard"
  /\ lock = RThread(r)
  /\ IF RecvMustWait
     THEN /\ rpc' = [rpc EXCEPT ![r] = "wait_recv"]
          /\ lock' = NoThread
     ELSE /\ rpc' = [rpc EXCEPT ![r] = "take"]
          /\ lock' = lock
  /\ UNCHANGED <<lottery, chan, spc, inputs, sdone, val, got, ghost>>

\* line 52: _can_recv.wait() returns once notified and the lock is back
RecvResume(r) ==
  /\ rpc[r] = "woken_recv"
  /\ lock = NoThread
  /\ lock' = RThread(r)
  /\ rpc' = [rpc EXCEPT ![r] = "guard"]
  /\ UNCHANGED <<lottery, chan, spc, inputs, sdone, val, got, ghost>>

\* line 55: val = self._msg
RecvTake(r) ==
  /\ rpc[r] = "take"
  /\ lock = RThread(r)
  /\ val' = [val EXCEPT ![r] = msg]
  /\ valId' = [valId EXCEPT ![r] = msgId]
  /\ picked' = picked \cup ({msgId} \ {NoId})
  /\ rpc' = [rpc EXCEPT ![r] = "clear_msg"]
  /\ UNCHANGED <<lottery, lock, chan, spc, inputs, sdone, got, msgId, gotId, stagedIds>>

\* (mutation) line 56 is missing: the slot keeps the value
RecvClearMsg_Keep(r) ==
  /\ rpc[r] = "clear_msg"
  /\ lock = RThread(r)
  /\ rpc' = [rpc EXCEPT ![r] = "clear_flag"]
  /\ UNCHANGED <<lottery, lock, chan, spc, inputs, sdone, val, got, ghost>>

\* line 56: self._msg = None
RecvClearMsg(r) ==
  /\ rpc[r] = "clear_msg"
  /\ lock = RThread(r)
  /\ msg' = None
  /\ msgId' = NoId
  /\ rpc' = [rpc EXCEPT ![r] = "clear_flag"]
  /\ UNCHANGED <<lottery, lock, has_msg, waiting_receivers, spc, inputs, sdone, val,
                 got, valId, gotId, stagedIds, picked>>

\* (mutation) line 57 is missing: the flag stays set
RecvClearFlag_Keep(r) ==
  /\ rpc[r] = "clear_flag"
  /\ lock = RThread(r)
  /\ rpc' = [rpc EXCEPT ![r] = "deregister"]
  /\ UNCHANGED <<lottery, lock, chan, spc, inputs, sdone, val, got, ghost>>

\* line 57: self._has_msg = False
RecvClearFlag(r) ==
  /\ rpc[r] = "clear_flag"
  /\ lock = RThread(r)
  /\ has_msg' = FALSE
  /\ rpc' = [rpc EXCEPT ![r] = "deregister"]
  /\ UNCHANGED <<lottery, lock, msg, waiting_receivers, spc, inputs, sdone, val, got,
                 ghost>>

\* (mutation) line 58 is missing: the receiver stays counted
RecvDeregister_Skip(r) ==
  /\ rpc[r] = "deregister"
  /\ lock = RThread(r)
  /\ rpc' = [rpc EXCEPT ![r] = "notify_ack"]
  /\ UNCHANGED <<lottery, lock, chan, spc, inputs, sdone, val, got, ghost>>

\* line 58: self._waiting_receivers -= 1
RecvDeregister(r) ==
  /\ rpc[r] = "deregister"
  /\ lock = RThread(r)
  /\ waiting_receivers' = waiting_receivers - 1
  /\ rpc' = [rpc EXCEPT ![r] = "notify_ack"]
  /\ UNCHANGED <<lottery, lock, has_msg, msg, spc, inputs, sdone, val, got, ghost>>

\* line 61: self._ack.notify()
RecvNotifyAck(r) ==
  /\ rpc[r] = "notify_ack"
  /\ lock = RThread(r)
  /\ NotifyAck
  /\ rpc' = [rpc EXCEPT ![r] = "notify_next"]
  /\ UNCHANGED <<lottery, lock, chan, inputs, sdone, val, got, ghost>>

\* line 62: self._can_send.notify()
RecvNotifyNext(r) ==
  /\ rpc[r] = "notify_next"
  /\ lock = RThread(r)
  /\ NotifyCanSend
  /\ rpc' = [rpc EXCEPT ![r] = "return"]
  /\ UNCHANGED <<lottery, lock, chan, inputs, sdone, val, got, ghost>>

\* line 63: return val (leaving the with block releases the lock)
RecvReturn(r) ==
  /\ rpc[r] = "return"
  /\ lock = RThread(r)
  /\ lock' = NoThread
  /\ got' = [got EXCEPT ![r] = Append(@, val[r])]
  /\ gotId' = [gotId EXCEPT ![r] = Append(@, valId[r])]
  /\ rpc' = [rpc EXCEPT ![r] = ReceiverNext(r, Len(got[r]) + 1)]
  /\ UNCHANGED <<lottery, chan, spc, inputs, sdone, val, msgId, valId, stagedIds,
                 picked>>

\* ------------------------------------------------------------ the system
SenderStep(s) ==
  \/ SendEnter(s)
  \/ SendGuard(s)
  \/ SendResume(s)
  \/ SendSetMsg(s)
  \/ SendSetFlag(s)
  \/ SendNotifyRecv(s)
  \/ SendAckGuard(s)
  \/ SendAckResume(s)

ReceiverStep(r) ==
  \/ RecvEnter(r)
  \/ RecvRegister(r)
  \/ RecvNotifySend(r)
  \/ RecvGuard(r)
  \/ RecvResume(r)
  \/ RecvTake(r)
  \/ RecvClearMsg(r)
  \/ RecvClearFlag(r)
  \/ RecvDeregister(r)
  \/ RecvNotifyAck(r)
  \/ RecvNotifyNext(r)
  \/ RecvReturn(r)

Next ==
  \/ \E s \in Senders : SenderStep(s)
  \/ \E r \in Receivers : ReceiverStep(r)

Spec == Init /\ [][Next]_vars

\* every runnable thread is eventually scheduled
Fairness ==
  /\ \A s \in Senders : WF_vars(SenderStep(s))
  /\ \A r \in Receivers : WF_vars(ReceiverStep(r))

FairSpec == Spec /\ Fairness

SpecFifo == InitFifo /\ [][Next]_vars /\ Fairness

SpecLive == InitLive /\ [][Next]_vars /\ Fairness

\* ------------------------------------------------------ spurious wake-ups
\* line 33: _can_send.wait() ends without a notify()
SpuriousWakeSend(s) ==
  /\ spc[s] = "wait_send"
  /\ spc' = [spc EXCEPT ![s] = "woken_send"]
  /\ UNCHANGED <<lottery, lock, chan, rpc, inputs, sdone, val, got, ghost>>

\* line 42: _ack.wait() ends without a notify()
SpuriousWakeAck(s) ==
  /\ spc[s] = "wait_ack"
  /\ spc' = [spc EXCEPT ![s] = "woken_ack"]
  /\ UNCHANGED <<lottery, lock, chan, rpc, inputs, sdone, val, got, ghost>>

\* line 52: _can_recv.wait() ends without a notify()
SpuriousWakeRecv(r) ==
  /\ rpc[r] = "wait_recv"
  /\ rpc' = [rpc EXCEPT ![r] = "woken_recv"]
  /\ UNCHANGED <<lottery, lock, chan, spc, inputs, sdone, val, got, ghost>>

NextSpurious ==
  \/ Next
  \/ \E s \in Senders : SpuriousWakeSend(s)
  \/ \E s \in Senders : SpuriousWakeAck(s)
  \/ \E r \in Receivers : SpuriousWakeRecv(r)

\* send() and recv() only copy the value (lines 35 and 55) and never look at
\* it, so renaming the values maps behaviours to behaviours: of the plans
\* that differ by a renaming only the one is kept in which each value is
\* first sent after all the smaller ones
SpuriousCallers ==
  /\ Callers
  /\ \A s \in Senders : \A i \in 1..Len(plan[s]) :
       \A v \in 1..(plan[s][i] - 1) :
         \E t \in Senders : \E k \in 1..Len(plan[t]) :
           /\ t < s \/ (t = s /\ k < i)
           /\ plan[t][k] = v

InitSpurious ==
  /\ SpuriousCallers
  /\ ChannelInit
  /\ ThreadsInit
  /\ LotteryNotRun

SpecSpurious == InitSpurious /\ [][NextSpurious]_vars

\* every call has returned
AllDone ==
  /\ \A s \in Senders : spc[s] = "done"
  /\ \A r \in Receivers : rpc[r] = "done"

\* no thread can take a step: each has finished or is parked in a wait()
\* that only a notify() can end
Quiescent ==
  /\ lock = NoThread
  /\ \A s \in Senders : spc[s] \in {"done", "wait_send", "wait_ack"}
  /\ \A r \in Receivers : rpc[r] \in {"done", "wait_recv"}

\* ============================================================ the lottery
\* Every thread of main runs its function, a fixed series of channel calls.
\* A channel's fields are read and written only under that channel's lock,
\* so each stretch of send()/recv() between taking the lock and releasing it
\* (in a wait() or at the return) is one step here; what a thread does with
\* its own variables between a return and its next channel call belongs to
\* the step of the return.

\* everything of the single channel studied above
single == <<lock, chan, spc, rpc, inputs, sdone, val, got, ghost>>

\* the variables of the four roles, apart from where each thread is
locals == <<elegido, agraciado, recibidos, a_agraciado, a_resultados, orden,
            idx, e_resultados, res, duplicado>>

\* the channel, the direction and the value of the call a thread is at
OpChan(t) ==
  CASE tpc[t] \in {"send_envio", "recv_envio"} -> ChEnvios
    [] tpc[t] \in {"send_sorteo", "recv_sorteo"} -> ChSorteoAdmin
    [] tpc[t] \in {"send_escru", "recv_admin"} -> ChAdminEscru
    [] tpc[t] \in {"send_admin", "recv_result"} -> ChEscruAdmin
    [] tpc[t] = "send_notif" -> ChNotif(orden[idx])
    [] tpc[t] = "recv_notif" -> ChNotif(t[2])
    [] OTHER -> NoChannel

IsSend(t) ==
  tpc[t] \in {"send_envio", "send_sorteo", "send_escru", "send_admin",
              "send_notif"}
IsRecv(t) ==
  tpc[t] \in {"recv_envio", "recv_sorteo", "recv_admin", "recv_result",
              "recv_notif"}

\* Submission (lines 66-69)
Submission(jid, num) == [jugador_id |-> jid, numero |-> num]

OpValue(t) ==
  CASE tpc[t] = "send_envio" -> Submission(t[2], elegido[t[2]])
    [] tpc[t] = "send_sorteo" -> agraciado
    [] tpc[t] = "send_escru" -> <<recibidos, a_agraciado>>
    [] tpc[t] = "send_admin" -> e_resultados
    [] tpc[t] = "send_notif" -> a_resultados[orden[idx]]

\* jugador, line 83 returned: on to line 87
JugadorEnviado(j) ==
  /\ tpc[Jugador(j)] = "send_envio"
  /\ tpc' = [tpc EXCEPT ![Jugador(j)] = "recv_notif"]
  /\ UNCHANGED locals

\* jugador, lines 87-89: the result v is received and the function ends
JugadorNotificado(j, v) ==
  /\ tpc[Jugador(j)] = "recv_notif"
  /\ res' = [res EXCEPT ![j] = v]
  /\ tpc' = [tpc EXCEPT ![Jugador(j)] = "fin"]
  /\ UNCHANGED <<elegido, agraciado, recibidos, a_agraciado, a_resultados,
                 orden, idx, e_resultados, duplicado>>

\* sorteo, line 95 returned: the function ends
SorteoEnviado ==
  /\ tpc[Sorteo] = "send_sorteo"
  /\ tpc' = [tpc EXCEPT ![Sorteo] = "fin"]
  /\ UNCHANGED locals

\* (mutation) escrutinio fills the two numbers the wrong way round
ResultadoDe_Swapped(num, agr) == ResultadoJugador(agr, num, num = agr)

\* escrutinio, line 101: the result for one player
ResultadoDe(num, agr) == ResultadoJugador(num, agr, num = agr)

\* escrutinio, lines 98-103: the table and the draw are received (v) and the
\* results computed
EscrutinioRecibe(v) ==
  /\ tpc[Escrutinio] = "recv_admin"
  /\ LET numeros_por_jugador == v[1]
         agr == v[2]
     IN e_resultados' =
          [jid \in DOMAIN numeros_por_jugador |->
             ResultadoDe(numeros_por_jugador[jid], agr)]
  /\ tpc' = [tpc EXCEPT ![Escrutinio] = "send_admin"]
  /\ UNCHANGED <<elegido, agraciado, recibidos, a_agraciado, a_resultados,
                 orden, idx, res, duplicado>>

\* escrutinio, line 104 returned: the function ends
EscrutinioEnviado ==
  /\ tpc[Escrutinio] = "send_admin"
  /\ tpc' = [tpc EXCEPT ![Escrutinio] = "fin"]
  /\ UNCHANGED locals

\* administracion, line 117: while len(recibidos) < n_jugadores
FaltanEnvios(tabla) == Cardinality(DOMAIN tabla) < NumJugadores

\* administracion, lines 117-129: the submission sub is received and
\* recorded (or ignored as a duplicate), then the loop goes round or ends
AdminRecibeEnvio(sub) ==
  /\ tpc[Administracion] = "recv_envio"
  /\ LET tabla == IF sub.jugador_id \notin DOMAIN recibidos
                  THEN [j \in DOMAIN recibidos \cup {sub.jugador_id} |->
                          IF j = sub.jugador_id THEN sub.numero
                          ELSE recibidos[j]]
                  ELSE recibidos
     IN /\ recibidos' = tabla
        /\ duplicado' = (duplicado \/ sub.jugador_id \in DOMAIN recibidos)
        /\ tpc' = [tpc EXCEPT ![Administracion] =
                     IF FaltanEnvios(tabla) THEN "recv_envio"
                     ELSE "recv_sorteo"]
  /\ UNCHANGED <<elegido, agraciado, a_agraciado, a_resultados, orden, idx,
                 e_resultados, res>>

\* administracion, lines 129-131: the drawn number v is received
AdminRecibeSorteo(v) ==
  /\ tpc[Administracion] = "recv_sorteo"
  /\ a_agraciado' = v
  /\ tpc' = [tpc EXCEPT ![Administracion] = "send_escru"]
  /\ UNCHANGED <<elegido, agraciado, recibidos, a_resultados, orden, idx,
                 e_resultados, res, duplicado>>

\* administracion, line 131 returned: on to line 134
AdminEnviado ==
  /\ tpc[Administracion] = "send_escru"
  /\ tpc' = [tpc EXCEPT ![Administracion] = "recv_result"]
  /\ UNCHANGED locals

\* the orders random.shuffle can leave the ids in
Shuffles(S) ==
  {f \in [1..Cardinality(S) -> S] :
     \A a, b \in 1..Cardinality(S) : f[a] = f[b] => a = b}

\* administracion, lines 134-140: the results v are received, the ids are
\* shuffled and the for loop starts
AdminRecibeResultados(v) ==
  /\ tpc[Administracion] = "recv_result"
  /\ a_resultados' = v
  /\ orden' \in Shuffles(DOMAIN v)
  /\ idx' = 1
  /\ tpc' = [tpc EXCEPT ![Administracion] =
               IF DOMAIN v = {} THEN "fin" ELSE "send_notif"]
  /\ UNCHANGED <<elegido, agraciado, recibidos, a_agraciado, e_resultados,
                 res, duplicado>>

\* administracion, lines 140-142: one player has been notified, the for
\* loop goes to the next id or ends
AdminNotificado ==
  /\ tpc[Administracion] = "send_notif"
  /\ idx' = idx + 1
  /\ tpc' = [tpc EXCEPT ![Administracion] =
               IF idx < Len(orden) THEN "send_notif" ELSE "fin"]
  /\ UNCHANGED <<elegido, agraciado, recibidos, a_agraciado, a_resultados,
                 orden, e_resultados, res, duplicado>>

\* what thread t does when its send() returns
AfterSend(t) ==
  \/ \E j \in Jugadores : t = Jugador(j) /\ JugadorEnviado(j)
  \/ t = Sorteo /\ SorteoEnviado
  \/ t = Escrutinio /\ EscrutinioEnviado
  \/ t = Administracion /\ AdminEnviado
  \/ t = Administracion /\ AdminNotificado

\* what thread t does when its recv() returns v
AfterRecv(t, v) ==
  \/ \E j \in Jugadores : t = Jugador(j) /\ JugadorNotificado(j, v)
  \/ t = Escrutinio /\ EscrutinioRecibe(v)
  \/ t = Administracion /\ AdminRecibeEnvio(v)
  \/ t = Administracion /\ AdminRecibeSorteo(v)
  \/ t = Administracion /\ AdminRecibeResultados(v)

\* the threads parked on a condition of channel c, given the phases ph
Parked(ph, c, cond) == {t \in Threads : ph[t] = cond /\ OpChan(t) = c}

\* notify() on a condition of channel c: the phases after one arbitrary
\* parked thread, if any, has been made runnable
AfterNotify(ph, c, cond, woken) ==
  IF Parked(ph, c, cond) = {}
  THEN {ph}
  ELSE {[ph EXCEPT ![w] = woken] : w \in Parked(ph, c, cond)}

\* send(), lines 29-42, from the call or from a wake-up of _can_send.wait():
\* wait again, or stage the value, notify a receiver and wait for the ack
\* (_has_msg was just set, so the loop at line 41 always waits first)
ChSend(t) ==
  /\ IsSend(t)
  /\ tph[t] \in {"call", "woken_send"}
  /\ LET c == OpChan(t)
     IN IF ch[c].waiting_receivers = 0 \/ ch[c].has_msg
        THEN /\ tph' = [tph EXCEPT ![t] = "wait_send"]
             /\ ch' = ch
        ELSE /\ ch' = [ch EXCEPT ![c].msg = OpValue(t), ![c].has_msg = TRUE]
             /\ \E p \in AfterNotify(tph, c, "wait_recv", "woken_recv") :
                  tph' = [p EXCEPT ![t] = "wait_ack"]
  /\ UNCHANGED <<single, tpc, locals>>

\* send(), lines 41-42, from a wake-up of _ack.wait(): wait again, or return
\* to the caller
ChSendAck(t) ==
  /\ IsSend(t)
  /\ tph[t] = "woken_ack"
  /\ IF ch[OpChan(t)].has_msg
     THEN /\ tph' = [tph EXCEPT ![t] = "wait_ack"]
          /\ UNCHANGED <<tpc, locals>>
     ELSE /\ tph' = [tph EXCEPT ![t] = "call"]
          /\ AfterSend(t)
  /\ UNCHANGED <<single, ch>>

\* recv(), lines 45-63, from the call (register and notify a sender, lines
\* 47-48) or from a wake-up of _can_recv.wait(): wait, or take the value,
\* deregister, notify the ack and a sender, and return the value to the
\* caller
ChRecv(t) ==
  /\ IsRecv(t)
  /\ tph[t] \in {"call", "woken_recv"}
  /\ LET c == OpChan(t)
         first == tph[t] = "call"
         n == ch[c].waiting_receivers + (IF first THEN 1 ELSE 0)
     IN \E p1 \in (IF first
                   THEN AfterNotify(tph, c, "wait_send", "woken_send")
                   ELSE {tph}) :
          IF ~ch[c].has_msg
          THEN /\ ch' = [ch EXCEPT ![c].waiting_receivers = n]
               /\ tph' = [p1 EXCEPT ![t] = "wait_recv"]
               /\ UNCHANGED <<tpc, locals>>
          ELSE /\ ch' = [ch EXCEPT ![c] = [has_msg |-> FALSE, msg |-> None,
                                           waiting_receivers |-> n - 1]]
               /\ \E p2 \in AfterNotify(p1, c, "wait_ack", "woken_ack") :
                  \E p3 \in AfterNotify(p2, c, "wait_send", "woken_send") :
                    tph' = [p3 EXCEPT ![t] = "call"]
               /\ AfterRecv(t, ch[c].msg)
  /\ UNCHANGED single

\* one step of a thread of main
LotteryStep(t) ==
  \/ ChSend(t)
  \/ ChSendAck(t)
  \/ ChRecv(t)

LotteryNext == \E t \in Threads : LotteryStep(t)

\* main, lines 146-173: the channels are created and the threads started;
\* the numbers the players choose (line 81) and the draw (line 93) do not
\* depend on anything else
InitLottery ==
  /\ plan = [s \in Senders |-> <<>>]
  /\ quota = [r \in Receivers |-> 0]
  /\ ChannelInit
  /\ ThreadsInit
  /\ \E el \in [Jugadores -> Numeros] : \E ag \in Numeros :
       LotteryStart(el, ag)

\* every started thread that can run is eventually scheduled
LotteryFairness == \A t \in Threads : WF_vars(LotteryStep(t))

SpecLottery == InitLottery /\ [][LotteryNext]_vars /\ LotteryFairness

\* main, lines 174-175: all the joins return
Finalizada == \A t \in Threads : tpc[t] = "fin"

\* ============================================================== properties

\* the send calls that have returned
Returned == {id \in Senders \X (1..MaxSends) : id[2] <= sdone[id[1]]}

\* a sender between staging its value (line 37) and returning from send()
InHandoff(s) == spc[s] \in {"notify_recv", "ack", "wait_ack", "woken_ack"}

\* the recv calls that have returned, as <<receiver, call number>>
Received == {c \in Receivers \X (1..MaxRecvs) : c[2] <= Len(got[c[1]])}

\* how many calls of the plans send v, and how many returned recv calls got v
SentCount(v) ==
  Cardinality({id \in Senders \X (1..MaxSends) :
                 id[2] <= Len(plan[id[1]]) /\ plan[id[1]][id[2]] = v})
GotCount(v) == Cardinality({c \in Received : got[c[1]][c[2]] = v})

\* C1: a send() call that has returned had staged its value, some recv() had
\* read that value out of the slot before the return, and the value is no
\* longer staged.
C1_NoPrematureReturn ==
  \A id \in Returned :
    /\ id \in stagedIds
    /\ id \in picked
    /\ ~(has_msg /\ msgId = id)

\* a send() has returned while another sender's value is staged
C1_Witness ==
  /\ Returned # {}
  /\ has_msg
  /\ lock = NoThread

\* C2: when as many send() as recv() calls are made, every call eventually
\* returns (fair scheduling, notify wakes an arbitrary waiter).
C2_AllCallsReturn == (SendCalls = RecvCalls) => <>AllDone

\* C3: in a quiescent state as many send() calls as recv() calls have
\* returned.
C3_Pairing == Quiescent => SendsDone = RecvsDone

\* C4: every value a recv() returned is the value of a send call that staged
\* it, no two returned recv() calls match the same send call, no staged value
\* disappears without being read, and once as many recv() calls have returned
\* as send() calls are made the received values are the sent values as
\* multisets.
C4_NoLossNoDup ==
  /\ \A c \in Received :
       LET id == gotId[c[1]][c[2]]
       IN /\ id \in stagedIds
          /\ got[c[1]][c[2]] = plan[id[1]][id[2]]
  /\ \A c, d \in Received : gotId[c[1]][c[2]] = gotId[d[1]][d[2]] => c = d
  /\ \A id \in stagedIds : id \in picked \/ (has_msg /\ msgId = id)
  /\ RecvsDone = SendCalls => \A v \in Values : GotCount(v) = SentCount(v)

\* two senders sent one value each, the same value, and one receiver has
\* completed its two recv() calls
C4_Witness ==
  /\ Len(plan[1]) = 1 /\ Len(plan[2]) = 1
  /\ plan[1] = plan[2]
  /\ quota[1] = 2
  /\ Len(got[1]) = 2

\* C5: in the one-sender/one-receiver scenario all the calls return and the
\* i-th recv() returns the i-th value sent: what the receiver has got is
\* always a prefix of what the sender sends, and eventually both threads
\* have finished with the whole sequence received.
C5_Fifo ==
  /\ [](/\ Len(got[1]) <= Len(plan[1])
        /\ got[1] = SubSeq(plan[1], 1, Len(got[1])))
  /\ <>(AllDone /\ got[1] = plan[1] /\ sdone[1] = Len(plan[1]))

\* the scenario has run to its end with at least two values
C5_Witness ==
  /\ AllDone
  /\ Len(plan[1]) >= 2
  /\ got[1] = plan[1]

\* C6: with two senders and one receiver, at most one sender at a time is
\* between staging its value and returning from send().
C6_OneSenderInHandoff ==
  (/\ Cardinality({s \in Senders : Len(plan[s]) > 0}) = 2
   /\ Cardinality({r \in Receivers : quota[r] > 0}) = 1)
  => Cardinality({s \in Senders : InHandoff(s)}) <= 1

\* the recv calls that have read the slot (line 55), returned or not
TakenCount ==
  RecvsDone
  + Cardinality({r \in Receivers :
       rpc[r] \in {"clear_msg", "clear_flag", "deregister", "notify_ack",
                   "notify_next", "return"}})

\* C7: no more recv() calls have taken a value than send() calls have staged
\* one, and a recv() takes only a staged value; while no send() has staged
\* anything (in particular when no send() is ever called) no recv() has
\* returned, and every recv() that has registered stays counted and is
\* blocked once it has released the lock.
C7_RecvBlocksUntilStaged ==
  /\ TakenCount <= Cardinality(stagedIds)
  /\ \A r \in Receivers : rpc[r] = "take" => has_msg
  /\ stagedIds = {} =>
       /\ RecvsDone = 0
       /\ \A r \in Receivers :
            rpc[r] \in {"done", "enter", "register", "notify_send", "guard",
                        "wait_recv", "woken_recv"}
       /\ lock = NoThread =>
            waiting_receivers =
              Cardinality({r \in Receivers : rpc[r] = "wait_recv"})

\* no send() is ever called and a recv() is blocked
C7_Witness ==
  /\ SendCalls = 0
  /\ Quiescent
  /\ \E r \in Receivers : rpc[r] = "wait_recv"

\* a sender writes the slot or sets the flag in this step
Stages(s) ==
  \/ spc[s] = "set_msg" /\ spc'[s] = "set_flag"
  \/ spc[s] = "set_flag" /\ spc'[s] = "notify_recv"

\* C8: a send() writes the slot and sets has_message only in a state where
\* waiting_receivers > 0 and has_message is false; while a value is staged
\* the slot changes only by a recv() reading and clearing it; at most one
\* staged value has not been read.
C8_StagingGuard ==
  /\ [][\A s \in Senders :
          Stages(s) => (waiting_receivers > 0 /\ ~has_msg)]_vars
  /\ [][has_msg =>
          \/ (msg' = msg /\ msgId' = msgId)
          \/ (msg' = None /\ \E r \in Receivers : rpc[r] = "clear_msg")]_vars
  /\ [](Cardinality(stagedIds \ picked) <= 1)

\* a sender has staged its value while another sender waits for the slot
C8_Witness ==
  /\ has_msg
  /\ \E s \in Senders : spc[s] = "wait_ack"
  /\ \E s \in Senders : spc[s] = "wait_send"

\* the recv calls that have registered (line 47) and not yet read the slot
\* (line 55)
RegisteredNotTaken ==
  {r \in Receivers :
     rpc[r] \in {"notify_send", "guard", "wait_recv", "woken_recv", "take"}}

\* C9: waiting_receivers is never negative, and whenever the lock is free it
\* is the number of recv() calls that have registered and not yet taken a
\* message; a blocked recv() is counted.
C9_ReceiverCount ==
  /\ waiting_receivers >= 0
  /\ lock = NoThread =>
       waiting_receivers = Cardinality(RegisteredNotTaken)
  /\ \A r \in Receivers : rpc[r] = "wait_recv" => waiting_receivers >= 1

\* the lock is free, one recv() has returned and another is still counted
C9_Witness ==
  /\ lock = NoThread
  /\ RecvsDone >= 1
  /\ waiting_receivers >= 1

\* C10: whenever the lock is free, has_message is true exactly when the slot
\* holds a value, and that value is the value of the send call that staged
\* it; when has_message is false the slot is None.
C10_Slot ==
  lock = NoThread =>
    /\ has_msg <=> msg # None
    /\ has_msg => /\ msgId \in stagedIds
                  /\ msg = plan[msgId[1]][msgId[2]]
    /\ ~has_msg => msg = None /\ msgId = NoId

\* the lock is free and a second value is staged after a first was taken
C10_Witness ==
  /\ lock = NoThread
  /\ has_msg
  /\ RecvsDone >= 1

\* C11: every sender parked in _ack.wait() is the sender of the value that
\* is staged right now: has_message is true, the staged value is its own, and
\* there is at most one such sender.
\* (Stated for the states in which the lock is free: between a pickup and
\* its _ack.notify() the receiver still holds the lock.)
C11_AckWaiterIsStager ==
  lock = NoThread =>
    /\ \A s \in AckWaiters :
         has_msg /\ msgId = CurId(s) /\ CurId(s) \notin picked
    /\ Cardinality(AckWaiters) <= 1

\* C15: whenever the lock is free, a staged value has at least one registered
\* recv() call that has not yet taken a message.
C15_StagedHasReceiver ==
  lock = NoThread =>
    (has_msg => /\ waiting_receivers >= 1
                /\ RegisteredNotTaken # {})

\* the lock is free and a value is staged with two recv() calls registered
C15_Witness ==
  /\ lock = NoThread
  /\ has_msg
  /\ waiting_receivers = 2

\* C12: with spurious wake-ups of any waiter, a sender goes on to stage only
\* when, holding the lock, it finds waiting_receivers > 0 and has_message
\* false; a receiver goes on to pick up only when it finds has_message true;
\* a send() returns only when it finds has_message false after it staged; and
\* no premature return (C1) and no loss / no duplication (C4) still hold.
C12_RecheckUnderSpuriousWakeups ==
  /\ [][\A s \in Senders :
          (spc[s] # "set_msg" /\ spc'[s] = "set_msg") =>
            (lock = SThread(s) /\ waiting_receivers > 0 /\ ~has_msg)]_vars
  /\ [][\A r \in Receivers :
          (rpc[r] # "take" /\ rpc'[r] = "take") =>
            (lock = RThread(r) /\ has_msg)]_vars
  /\ [][\A s \in Senders :
          sdone'[s] # sdone[s] =>
            (lock = SThread(s) /\ ~has_msg /\ CurId(s) \in stagedIds)]_vars
  /\ []C1_NoPrematureReturn
  /\ []C4_NoLossNoDup

\* a sender has been woken from _ack.wait() while its own value is still
\* staged, which only a spurious wake-up does
C12_Witness ==
  \E s \in Senders :
    /\ spc[s] = "woken_ack"
    /\ has_msg
    /\ msgId = CurId(s)
    /\ lock = NoThread

\* the senders with a send() call that has not yet staged its value
PendingSenders ==
  {s \in Senders :
     spc[s] \in {"enter", "guard", "wait_send", "woken_send", "set_msg",
                 "set_flag"}}

\* C13: whenever, with the lock free, some send() has not yet staged its
\* value, a recv() is registered and no message is staged, some send()
\* eventually stages a value.
C13_NoLostSenderWakeup ==
  (/\ lock = NoThread
   /\ PendingSenders # {}
   /\ waiting_receivers > 0
   /\ ~has_msg) ~> has_msg

\* a sender is parked in _can_send.wait() while a receiver is registered and
\* nothing is staged
C13_Witness ==
  /\ lock = NoThread
  /\ CanSendWaiters # {}
  /\ waiting_receivers > 0
  /\ ~has_msg

\* C14: whenever a value is staged it is eventually picked up.
C14_StagedIsPickedUp ==
  \A id \in Senders \X (1..MaxSends) :
    (has_msg /\ msgId = id) ~> (id \in picked /\ ~has_msg)

\* a receiver was notified of a staged value that another recv() call, which
\* has returned, took before it
C14_Witness ==
  /\ lock = NoThread
  /\ ~has_msg
  /\ \E r \in Receivers : rpc[r] = "woken_recv"
  /\ RecvsDone >= 1

\* C16: the lottery simulation terminates: under fair scheduling every
\* thread of main eventually finishes.
C16_LotteryTerminates == <>Finalizada

\* the result player j must receive
Esperado(j) == ResultadoJugador(elegido[j], agraciado, elegido[j] = agraciado)

\* administracion is past the loop at line 117
TablaCerrada == tpc[Administracion] # "recv_envio"

\* administracion has received the draw
SorteoRecibido ==
  tpc[Administracion] \in {"send_escru", "recv_result", "send_notif", "fin"}

\* C17: administracion never takes the duplicate branch and its table holds
\* each player's own number; it is at the send to escrutinio, or past it,
\* only with all N submissions and the drawn number, which is what escrutinio
\* receives; and a player that has its result has its own number, the drawn
\* number, and acierto true exactly when they are equal.
C17_EndToEnd ==
  /\ ~duplicado
  /\ \A j \in DOMAIN recibidos : j \in Jugadores /\ recibidos[j] = elegido[j]
  /\ TablaCerrada => DOMAIN recibidos = Jugadores
  /\ SorteoRecibido =>
       /\ DOMAIN recibidos = Jugadores
       /\ a_agraciado = agraciado
  /\ ch[ChAdminEscru].has_msg => SorteoRecibido
  /\ tpc[Escrutinio] # "recv_admin" =>
       /\ SorteoRecibido
       /\ DOMAIN e_resultados = Jugadores
       /\ \A j \in Jugadores : e_resultados[j] = Esperado(j)
  /\ \A j \in Jugadores :
       tpc[Jugador(j)] = "fin" =>
         /\ res[j] = Esperado(j)
         /\ res[j].acierto <=> (elegido[j] = agraciado)

\* a player has finished with a winning result and another with a losing one
C17_Witness ==
  /\ \E j \in Jugadores : tpc[Jugador(j)] = "fin" /\ res[j].acierto
  /\ \E j \in Jugadores : tpc[Jugador(j)] = "fin" /\ ~res[j].acierto

TypeOK ==
  /\ lock \in {NoThread} \cup {SThread(s) : s \in Senders}
                         \cup {RThread(r) : r \in Receivers}
  /\ has_msg \in BOOLEAN
  /\ msg \in Values \cup {None}
  /\ waiting_receivers \in 0..MaxRecvs
  /\ Quiescent <=> ~ENABLED Next
====
